---- MODULE Spec2Model ----
(***************************************************************************)
(* A model of the genetic-algorithm engine of ALGO-GEN:                    *)
(*   src/core_functions/{instance,fitness,Selection,crossover,mutation}.py *)
(*   src/Algorithms/{genetic_algorithm,Tournament,roulette}.py             *)
(*                                                                         *)
(* Random draws are nondeterministic choices.  A Python function that may  *)
(* raise is modelled by two operators: <name>(...) is the set of values it *)
(* can return, and <name>_raises(...) says whether some draw makes it      *)
(* raise.  Real numbers (fitness, averages, rates) are exact fractions     *)
(* [num, den] in lowest terms with den > 0; floating-point rounding is not *)
(* modelled.  Python's None is NoCost for a cost and NoFitness for a       *)
(* fitness.  Sequences are 1-based here and 0-based in the source.         *)
(***************************************************************************)
EXTENDS Integers, Sequences, FiniteSets, TLC

VARIABLES
    ga,                     \* the engine's parameters (self.instance, self.pop_size, ...)
    phase,                  \* "constructed" | "running" | "exit" | "raised"
    runs,                   \* number of calls of run() made on this engine
    population,             \* run(): population
    best_individual,        \* run(): best_individual
    generation,             \* run(): generation
    stagnation_counter,     \* run(): stagnation_counter
    best_fitness_history,   \* self.best_fitness_history
    avg_fitness_history,    \* self.avg_fitness_history
    best_cost_history,      \* self.best_cost_history
    diversity_history,      \* self.diversity_history
    kept_max,               \* history variable: greatest fitness kept in a population of this run
    results,                \* the records run() has returned so far
    call                    \* the direct call of an operator made (SpecOps only)

vars == <<ga, phase, runs, population, best_individual, generation,
          stagnation_counter, best_fitness_history, avg_fitness_history,
          best_cost_history, diversity_history, kept_max, results, call>>

engine_vars == <<ga, phase, runs, population, best_individual, generation,
                 stagnation_counter, best_fitness_history, avg_fitness_history,
                 best_cost_history, diversity_history, kept_max, results>>

----------------------------------------------------------------------------
(* Bounds of the model *)

MaxSize == 2        \* longest chromosome and instance in a direct call
MaxVal == 1         \* largest gene and data value in a direct call
MaxPopSize == 3     \* largest pop_size, and largest population in a direct call
MaxGen == 2         \* largest max_generations of a short run
MaxRuns == 2        \* calls of run() on one engine
MaxK == 3           \* largest tournament_k

(* genetic_algorithm.py:169  if stagnation_counter > 200 *)
STAGNATION_LIMIT == 200

----------------------------------------------------------------------------
(* Arithmetic *)

Abs(x) == IF x < 0 THEN -x ELSE x

Min(a, b) == IF a <= b THEN a ELSE b

Max(a, b) == IF a >= b THEN a ELSE b

RECURSIVE GCD(_, _)
GCD(a, b) == IF b = 0 THEN Abs(a) ELSE GCD(b, a % b)

Frac(n, d) ==
    LET g == GCD(Abs(n), d)
    IN  [num |-> n \div g, den |-> d \div g]

FracLess(a, b) == a.num * b.den < b.num * a.den

FracAdd(a, b) == Frac(a.num * b.den + b.num * a.den, a.den * b.den)

RECURSIVE FracSum(_)
FracSum(s) == IF s = <<>> THEN Frac(0, 1) ELSE FracAdd(Head(s), FracSum(Tail(s)))

(* statistics.mean over a non-empty sequence of fractions *)
mean(s) == LET t == FracSum(s) IN Frac(t.num, t.den * Len(s))

RECURSIVE SumSeq(_)
SumSeq(s) == IF s = <<>> THEN 0 ELSE Head(s) + SumSeq(Tail(s))

(* Python's seq[:n] *)
Prefix(s, n) ==
    IF n >= 0 THEN SubSeq(s, 1, Min(n, Len(s)))
    ELSE SubSeq(s, 1, Max(Len(s) + n, 0))

(* max(seq) of integers, seq non-empty *)
MaxOf(s) == CHOOSE m \in {s[i] : i \in 1..Len(s)} : \A i \in 1..Len(s) : s[i] <= m

----------------------------------------------------------------------------
(* core_functions/instance.py *)

NoCost == -1

NoFitness == [num |-> 0, den |-> 0]

Instance(size, data) == [size |-> size, data |-> data]

(* Individual.__init__; id stands for the object's identity *)
Individual(chromosome, id) ==
    [chromosome |-> chromosome, cost |-> NoCost, fitness |-> NoFitness, id |-> id]

----------------------------------------------------------------------------
(* core_functions/fitness.py *)

(* zip stops at the shorter of the two sequences *)
zip(a, b) == [i \in 1..Min(Len(a), Len(b)) |-> <<a[i], b[i]>>]

(* compute_cost with the abs left out *)
compute_cost_signed(individual, instance) ==
    LET z == zip(individual.chromosome, instance.data)
    IN  SumSeq([i \in 1..Len(z) |-> z[i][1] - z[i][2]])

compute_cost(individual, instance) ==
    LET z == zip(individual.chromosome, instance.data)
    IN  SumSeq([i \in 1..Len(z) |-> Abs(z[i][1] - z[i][2])])

(* fitness never raises; it returns the individual as it leaves it *)
fitness(individual, instance) ==
    LET c == compute_cost(individual, instance)
    IN  [individual EXCEPT !.cost = c, !.fitness = Frac(1, 1 + c)]

(* max(population, key=lambda ind: ind.fitness): the first of the greatest *)
MaxByFitness(pop) ==
    pop[CHOOSE i \in 1..Len(pop) :
            /\ \A j \in 1..Len(pop) : ~FracLess(pop[i].fitness, pop[j].fitness)
            /\ \A j \in 1..(i - 1) : FracLess(pop[j].fitness, pop[i].fitness)]

----------------------------------------------------------------------------
(* core_functions/Selection.py *)

(* random.sample(range(n), k): k distinct positions, in the order drawn.
   It raises ValueError when k < 0 or k > n. *)
sample(n, k) ==
    IF k < 0 \/ k > n THEN {}
    ELSE {s \in [1..k -> 1..n] : \A i, j \in 1..k : i # j => s[i] # s[j]}

(* the individuals at the drawn positions *)
Drawn(pop, s) == [i \in 1..Len(s) |-> pop[s[i]]]

(* tournament_selection(pop, k): the values it can return *)
tournament_selection(pop, k) ==
    {MaxByFitness(Drawn(pop, s)) : s \in {t \in sample(Len(pop), k) : t # <<>>}}

(* random.sample raises for k < 0 or k > len(pop); max raises on the
   empty selection (k = 0) *)
tournament_selection_raises(pop, k) ==
    k < 0 \/ k > Len(pop) \/ k = 0

(* The fitness values of a pop over one common denominator:
   Weights(pop)[i] / CommonDen(pop) = pop[i].fitness *)
RECURSIVE CommonDen(_)
CommonDen(pop) ==
    IF pop = <<>> THEN 1
    ELSE Head(pop).fitness.den * CommonDen(Tail(pop))

Weights(pop) ==
    [i \in 1..Len(pop) |->
        pop[i].fitness.num * (CommonDen(pop) \div pop[i].fitness.den)]

(* current after the first i additions of the loop *)
Cumulative(w) == [i \in 1..Len(w) |-> SumSeq(SubSeq(w, 1, i))]

(* random.uniform(0, total) is 0 + total * random.random() with random.random()
   in [0, 1): a real from 0 (which can be drawn) towards total (which cannot,
   unless total = 0), whichever of the two is the smaller.  Only the position
   of pick among 0, total and the running sums matters, so one representative
   per position is drawn: each of these values and each midpoint of two of
   them.  Picks are doubled to stay integers. *)
Picks2(w) ==
    LET total == SumSeq(w)
        cum == Cumulative(w)
        marks == {0, total} \cup {cum[i] : i \in 1..Len(w)}
        lo == Min(0, total)
        hi == Max(0, total)
    IN  {x2 \in {a + b : a \in marks, b \in marks} \cap ((2 * lo)..(2 * hi)) :
            x2 # 2 * total \/ total = 0}

(* the positions at which the loop can return: the first i with current >= pick *)
roulette_positions(w) ==
    LET cum == Cumulative(w)
    IN  {i \in 1..Len(w) :
            \E pick2 \in Picks2(w) :
                /\ 2 * cum[i] >= pick2
                /\ \A j \in 1..(i - 1) : 2 * cum[j] < pick2}

(* roulette_selection(pop): the individuals it can return *)
roulette_selection(pop) ==
    {pop[i] : i \in roulette_positions(Weights(pop))}

(* the loop can end without a return: the function then returns None *)
roulette_selection_returns_none(pop) ==
    LET w == Weights(pop)
        cum == Cumulative(w)
    IN  \E pick2 \in Picks2(w) : \A j \in 1..Len(w) : 2 * cum[j] < pick2

(* no statement of roulette_selection raises on numeric fitness values *)
roulette_selection_raises(pop) == FALSE

----------------------------------------------------------------------------
(* core_functions/crossover.py *)

(* the assert, and random.randint(1, len - 1) on an empty range *)
one_point_raises(parent1, parent2) ==
    Len(parent1) # Len(parent2) \/ Len(parent1) - 1 < 1

one_point(parent1, parent2) ==
    IF one_point_raises(parent1, parent2) THEN {}
    ELSE {<<SubSeq(parent1, 1, point) \o SubSeq(parent2, point + 1, Len(parent2)),
            SubSeq(parent2, 1, point) \o SubSeq(parent1, point + 1, Len(parent1))>> :
            point \in 1..(Len(parent1) - 1)}

uniform_raises(parent1, parent2) == Len(parent1) # Len(parent2)

(* uniform with child2 given the gene child1 was given *)
uniform_same_gene(parent1, parent2) ==
    IF uniform_raises(parent1, parent2) THEN {}
    ELSE {<<[i \in 1..Len(parent1) |-> IF keep[i] THEN parent1[i] ELSE parent2[i]],
            [i \in 1..Len(parent1) |-> IF keep[i] THEN parent1[i] ELSE parent2[i]]>> :
            keep \in [1..Len(parent1) -> BOOLEAN]}

(* keep[i] is the outcome of random.random() < 0.5 at position i *)
uniform(parent1, parent2) ==
    IF uniform_raises(parent1, parent2) THEN {}
    ELSE {<<[i \in 1..Len(parent1) |-> IF keep[i] THEN parent1[i] ELSE parent2[i]],
            [i \in 1..Len(parent1) |-> IF keep[i] THEN parent2[i] ELSE parent1[i]]>> :
            keep \in [1..Len(parent1) -> BOOLEAN]}

----------------------------------------------------------------------------
(* core_functions/mutation.py *)

(* random.sample(range(len(child)), 2) needs two positions *)
swap_raises(chromosome) == Len(chromosome) < 2

(* swap with the second assignment left out *)
swap_overwrite(chromosome) ==
    {[chromosome EXCEPT ![s[1]] = chromosome[s[2]]] : s \in sample(Len(chromosome), 2)}

(* line 5: i, j = random.sample(range(len(child)), 2); line 6 exchanges them *)
swap(chromosome) ==
    {[chromosome EXCEPT ![s[1]] = chromosome[s[2]], ![s[2]] = chromosome[s[1]]] :
        s \in sample(Len(chromosome), 2)}

inversion_raises(chromosome) == Len(chromosome) < 2

(* 0-based i < j; child[i:j] is reversed: the 1-based positions i+1 .. j *)
inversion(chromosome) ==
    {[p \in 1..Len(chromosome) |->
        IF p >= i + 1 /\ p <= j THEN chromosome[(i + 1) + j - p] ELSE chromosome[p]] :
        <<i, j>> \in {<<Min(s[1], s[2]) - 1, Max(s[1], s[2]) - 1>> :
                        s \in sample(Len(chromosome), 2)}}

(* random.randint(0, len - 1) and random.randint(min_val, max_val) on an empty range *)
random_reset_raises(chromosome, min_val, max_val) ==
    Len(chromosome) - 1 < 0 \/ max_val < min_val

(* random_reset drawing from one value past max_val *)
random_reset_wide(chromosome, min_val, max_val) ==
    IF random_reset_raises(chromosome, min_val, max_val) THEN {}
    ELSE {[chromosome EXCEPT ![i] = v] :
            i \in 1..Len(chromosome), v \in min_val..(max_val + 1)}

random_reset(chromosome, min_val, max_val) ==
    IF random_reset_raises(chromosome, min_val, max_val) THEN {}
    ELSE {[chromosome EXCEPT ![i] = v] : i \in 1..Len(chromosome), v \in min_val..max_val}

----------------------------------------------------------------------------
(* Algorithms/genetic_algorithm.py: GeneticAlgorithm *)

(* random.random() is a real in [0, 1): "random.random() < rate" can be true
   exactly when rate > 0 and can be false exactly when rate < 1 *)
CanHappen(rate) == 0 < rate.num

CanBeSkipped(rate) == rate.num < rate.den

(* self.crossover_op: one_point if crossover_op == 'one_point' else uniform *)
crossover_op(parent1, parent2) ==
    IF ga.crossover_op = "one_point" THEN one_point(parent1, parent2)
    ELSE uniform(parent1, parent2)

crossover_op_raises(parent1, parent2) ==
    IF ga.crossover_op = "one_point" THEN one_point_raises(parent1, parent2)
    ELSE uniform_raises(parent1, parent2)

(* mutation_op with random_reset left at its default max_val = 9 *)
mutation_op_default_range(chrom) ==
    IF ga.mutation_op = "swap" THEN swap(chrom)
    ELSE IF ga.mutation_op = "inversion" THEN inversion(chrom)
    ELSE random_reset(chrom, 0, 9)

(* self.mutation_op: swap, inversion, or random_reset bound to [0, max(instance.data)] *)
mutation_op(chrom) ==
    IF ga.mutation_op = "swap" THEN swap(chrom)
    ELSE IF ga.mutation_op = "inversion" THEN inversion(chrom)
    ELSE random_reset(chrom, 0, MaxOf(ga.instance.data))

mutation_op_raises(chrom) ==
    IF ga.mutation_op = "swap" THEN swap_raises(chrom)
    ELSE IF ga.mutation_op = "inversion" THEN inversion_raises(chrom)
    ELSE random_reset_raises(chrom, 0, MaxOf(ga.instance.data))

(* the chromosomes initialize_population can build *)
RandomChromosomes ==
    [1..ga.instance.size -> 0..MaxOf(ga.instance.data)]

(* initialize_population: pop_size evaluated individuals (none for pop_size <= 0) *)
initialize_population ==
    {[i \in 1..ga.pop_size |->
        fitness(Individual(c[i], [run |-> runs + 1, gen |-> 0, idx |-> i]), ga.instance)] :
        c \in [1..ga.pop_size -> RandomChromosomes]}

select_parent(pop) ==
    IF ga.selection_op = "roulette" THEN roulette_selection(pop)
    ELSE tournament_selection(pop, ga.tournament_k)

select_parent_raises(pop) ==
    IF ga.selection_op = "roulette" THEN roulette_selection_raises(pop)
    ELSE tournament_selection_raises(pop, ga.tournament_k)

(* lines 119-124: the two offspring chromosomes after the crossover step *)
Crossed(parent1, parent2) ==
    (IF CanHappen(ga.crossover_rate)
        THEN crossover_op(parent1.chromosome, parent2.chromosome) ELSE {})
    \cup
    (IF CanBeSkipped(ga.crossover_rate)
        THEN {<<parent1.chromosome, parent2.chromosome>>} ELSE {})

(* lines 127-130: one offspring chromosome after the mutation step *)
Mutated(chrom) ==
    (IF CanHappen(ga.mutation_rate) THEN mutation_op(chrom) ELSE {})
    \cup
    (IF CanBeSkipped(ga.mutation_rate) THEN {chrom} ELSE {})

(* lines 115-130: the pairs of offspring chromosomes one pass of the inner loop can make *)
OffspringPairs(pop) ==
    UNION {UNION {Mutated(cc[1]) \X Mutated(cc[2]) : cc \in Crossed(parent1, parent2)} :
            parent1 \in select_parent(pop), parent2 \in select_parent(pop)}

(* lines 115-130: some draw makes one pass of the inner loop raise *)
OffspringRaises(pop) ==
    \/ select_parent_raises(pop)
    \/ ga.selection_op = "roulette" /\ roulette_selection_returns_none(pop)
    \/ \E parent1 \in select_parent(pop), parent2 \in select_parent(pop) :
        \/ /\ CanHappen(ga.crossover_rate)
           /\ crossover_op_raises(parent1.chromosome, parent2.chromosome)
        \/ \E cc \in Crossed(parent1, parent2) :
            /\ CanHappen(ga.mutation_rate)
            /\ mutation_op_raises(cc[1]) \/ mutation_op_raises(cc[2])

(* lines 113-140: the inner while loop, from new_population on; every pass
   appends two evaluated children *)
RECURSIVE FillPopulation(_, _)
FillPopulation(new_population, pairs) ==
    IF Len(new_population) < ga.pop_size
    THEN UNION {FillPopulation(
                    new_population \o
                    <<fitness(Individual(cc[1], [run |-> runs, gen |-> generation + 1,
                                                 idx |-> Len(new_population) + 1]),
                              ga.instance),
                      fitness(Individual(cc[2], [run |-> runs, gen |-> generation + 1,
                                                 idx |-> Len(new_population) + 2]),
                              ga.instance)>>,
                    pairs) : cc \in pairs}
    ELSE {new_population}

(* calculate_diversity: i and j are the source's 0-based positions *)
calculate_diversity(pop) ==
    IF Len(pop) < 2 THEN Frac(0, 1)
    ELSE LET sample_size == Min(10, Len(pop) - 1)
             compared == {<<i, j>> \in (0..(Min(20, Len(pop)) - 1)) \X (0..(Len(pop) - 1)) :
                            j >= i + 1 /\ j < Min(i + sample_size, Len(pop))}
             diff(i, j) == Cardinality({g \in DOMAIN zip(pop[i + 1].chromosome,
                                                          pop[j + 1].chromosome) :
                                pop[i + 1].chromosome[g] # pop[j + 1].chromosome[g]})
             RECURSIVE total(_)
             total(S) == IF S = {} THEN Frac(0, 1)
                         ELSE LET e == CHOOSE x \in S : TRUE
                              IN  FracAdd(Frac(diff(e[1], e[2]), Len(pop[e[1] + 1].chromosome)),
                                          total(S \ {e}))
             t == total(compared)
         IN  IF compared = {} THEN Frac(0, 1)
             ELSE Frac(t.num, t.den * Cardinality(compared))

----------------------------------------------------------------------------
(* The engines: what __init__ is called with.  __init__ (lines 30-53) only
   stores its arguments and raises nothing, so every one of these exists. *)

Engine(instance, pop_size, cr, mr, max_generations, cx, mu, sel, k) ==
    [instance |-> instance, pop_size |-> pop_size, crossover_rate |-> cr,
     mutation_rate |-> mr, max_generations |-> max_generations,
     crossover_op |-> cx, mutation_op |-> mu, selection_op |-> sel,
     tournament_k |-> k]

Half == Frac(1, 2)

(* one gene; every gene 0; a mixed target; a target at the top of the gene range *)
EngineInstances ==
    {Instance(1, <<1>>), Instance(2, <<0, 0>>), Instance(2, <<1, 0>>), Instance(2, <<1, 1>>)}

Mixed == Instance(2, <<1, 0>>)

(* crossover, mutation, selection and tournament size; 3 is the default k *)
OperatorChoices ==
    {<<cx, mu, "tournament", k>> : cx \in {"one_point", "uniform"},
                                   mu \in {"swap", "inversion", "random_reset"},
                                   k \in 1..MaxK}
    \cup
    {<<cx, mu, "roulette", 3>> : cx \in {"one_point", "uniform"},
                                 mu \in {"swap", "inversion", "random_reset"}}

ScaleChoices ==
    {<<"one_point", "swap", "tournament", 1>>, <<"uniform", "random_reset", "roulette", 3>>}

SweepPopSizes == {2, 3}

(* every operator choice on every instance, one generation *)
SweepEngines ==
    {Engine(instance, pop_size, Half, Half, 1, o[1], o[2], o[3], o[4]) :
        instance \in EngineInstances, pop_size \in SweepPopSizes, o \in OperatorChoices}

(* the rates at and between their ends *)
RateEngines ==
    {Engine(Mixed, 2, cr, mr, 1, o[1], o[2], o[3], o[4]) :
        cr \in {Frac(0, 1), Half, Frac(1, 1)}, mr \in {Frac(0, 1), Half, Frac(1, 1)},
        o \in ScaleChoices}

(* every population size, one generation *)
PopEngines ==
    {Engine(Mixed, pop_size, Half, Half, 1, o[1], o[2], o[3], o[4]) :
        pop_size \in 1..MaxPopSize, o \in ScaleChoices}

(* every number of generations *)
GenEngines ==
    {Engine(Mixed, pop_size, Half, Half, max_generations, o[1], o[2], o[3], o[4]) :
        pop_size \in SweepPopSizes, max_generations \in 1..MaxGen, o \in ScaleChoices}

(* runs long enough to stagnate: the population cannot change (one individual,
   or every gene 0) *)
LongEngines ==
    {Engine(instance, 1, Half, Half, STAGNATION_LIMIT + d, "one_point", "swap", "tournament", 3) :
        instance \in {Mixed}, d \in 0..3}
    \cup
    {Engine(Instance(2, <<0, 0>>), 2, Half, Half, STAGNATION_LIMIT + d,
            o[1], o[2], o[3], o[4]) : d \in 0..3, o \in ScaleChoices}

(* the parameters section 7 of the specification calls invalid, one at a time *)
InvalidEngines ==
    {Engine(Mixed, pop_size, Half, Half, 1, "one_point", "swap", "tournament", 2) :
        pop_size \in {-1, 0}}
    \cup
    {Engine(Mixed, 2, cr, Half, 1, "one_point", "swap", "tournament", 2) :
        cr \in {Frac(-1, 2), Frac(3, 2)}}
    \cup
    {Engine(Mixed, 2, Half, mr, 1, "one_point", "swap", "tournament", 2) :
        mr \in {Frac(-1, 2), Frac(3, 2)}}
    \cup
    {Engine(Mixed, 2, Half, Half, max_generations, "one_point", "swap", "tournament", 2) :
        max_generations \in {-1, 0}}
    \cup
    {Engine(Mixed, 2, Half, Half, 1, "one_point", "swap", "tournament", k) :
        k \in {-1, 0}}

Engines ==
    SweepEngines \cup RateEngines \cup PopEngines \cup GenEngines \cup LongEngines
    \cup InvalidEngines

(* engines on which run() is called again: one individual, or one generation *)
RerunEngines ==
    {Engine(instance, 1, Half, Half, max_generations, "one_point", "swap", "tournament", 2) :
        instance \in EngineInstances, max_generations \in 1..MaxGen}
    \cup
    {Engine(instance, 2, Half, Half, 1, o[1], o[2], o[3], o[4]) :
        instance \in EngineInstances, o \in ScaleChoices}

NoIndividual == Individual(<<>>, [run |-> 0, gen |-> 0, idx |-> 0])

NoCall == [fn |-> "none"]

(* the state __init__ leaves, before any call of run() *)
Constructed ==
    /\ phase = "constructed"
    /\ runs = 0
    /\ population = <<>>
    /\ best_individual = NoIndividual
    /\ generation = 0
    /\ stagnation_counter = 0
    /\ best_fitness_history = <<>>
    /\ avg_fitness_history = <<>>
    /\ best_cost_history = <<>>
    /\ diversity_history = <<>>
    /\ kept_max = NoFitness
    /\ results = <<>>
    /\ call = NoCall

Init == ga \in Engines /\ Constructed

InitRerun == ga \in RerunEngines /\ Constructed

----------------------------------------------------------------------------
(* GeneticAlgorithm.run *)

(* the greatest fitness in a non-empty population *)
GreatestFitness(pop) ==
    CHOOSE f \in {pop[i].fitness : i \in 1..Len(pop)} :
        \A i \in 1..Len(pop) : ~FracLess(f, pop[i].fitness)

(* where control goes from the head of the main loop (line 105) *)
LoopHead(gen) == IF gen < ga.max_generations THEN "running" ELSE "exit"

(* lines 91-105: a call of run() up to the head of the loop; max raises on the
   empty population *)
Begin ==
    /\ runs' = runs + 1
    /\ \E p \in initialize_population :
        /\ population' = p
        /\ IF p = <<>>
           THEN /\ phase' = "raised"
                /\ UNCHANGED <<best_individual, generation, stagnation_counter, kept_max>>
           ELSE /\ phase' = LoopHead(0)
                /\ best_individual' = MaxByFitness(p)
                /\ generation' = 0
                /\ stagnation_counter' = 0
                /\ kept_max' = GreatestFitness(p)
    /\ UNCHANGED <<ga, best_fitness_history, avg_fitness_history, best_cost_history,
                   diversity_history, results, call>>

(* the first call of run() on an engine *)
RunStart == phase = "constructed" /\ Begin

(* a later call of run() on the same engine *)
RunAgain == phase = "returned" /\ runs < MaxRuns /\ Begin

(* the truncation left out *)
Truncate_nothing(new_population) == new_population

(* line 143: new_population[:self.pop_size] *)
Truncate(new_population) == Prefix(new_population, ga.pop_size)

(* the comparison of line 147 turned round *)
UpdateBest_reversed(pop, carried, counter) ==
    LET current_best == MaxByFitness(pop)
    IN  IF FracLess(current_best.fitness, carried.fitness)
        THEN [best |-> current_best, stagnation |-> 0]
        ELSE [best |-> carried, stagnation |-> counter + 1]

(* the comparison of line 147 with >= for > *)
UpdateBest_ties_replace(pop, carried, counter) ==
    LET current_best == MaxByFitness(pop)
    IN  IF ~FracLess(current_best.fitness, carried.fitness)
        THEN [best |-> current_best, stagnation |-> 0]
        ELSE [best |-> carried, stagnation |-> counter + 1]

(* lines 146-151: the carried best and the stagnation counter after a generation *)
UpdateBest(pop, carried, counter) ==
    LET current_best == MaxByFitness(pop)
    IN  IF FracLess(carried.fitness, current_best.fitness)
        THEN [best |-> current_best, stagnation |-> 0]
        ELSE [best |-> carried, stagnation |-> counter + 1]

(* the test of line 169 with >= for > *)
Stagnated_at_limit(counter) == counter >= STAGNATION_LIMIT

(* line 169: the stagnation test that breaks out of the loop *)
Stagnated(counter) == counter > STAGNATION_LIMIT

(* lines 105-172: one pass of the main loop in which nothing raises, up to the
   next test of the loop condition *)
Generation ==
    /\ phase = "running"
    /\ \E new_population \in FillPopulation(<<best_individual>>, OffspringPairs(population)) :
        LET truncated == Truncate(new_population)
            u == UpdateBest(truncated, best_individual, stagnation_counter)
        IN  /\ generation' = generation + 1
            /\ population' = truncated
            /\ best_individual' = u.best
            /\ stagnation_counter' = u.stagnation
            /\ best_fitness_history' = Append(best_fitness_history, u.best.fitness)
            /\ avg_fitness_history' =
                    Append(avg_fitness_history,
                           mean([i \in 1..Len(truncated) |-> truncated[i].fitness]))
            /\ best_cost_history' = Append(best_cost_history, u.best.cost)
            /\ diversity_history' = Append(diversity_history, calculate_diversity(truncated))
            /\ kept_max' = IF FracLess(kept_max, GreatestFitness(truncated))
                           THEN GreatestFitness(truncated) ELSE kept_max
            /\ phase' = IF Stagnated(u.stagnation) THEN "exit" ELSE LoopHead(generation + 1)
    /\ UNCHANGED <<ga, runs, results, call>>

(* lines 105-140: a pass of the main loop in which selection, crossover or
   mutation raises; the exception leaves run() *)
GenerationRaises ==
    /\ phase = "running"
    /\ 1 < ga.pop_size
    /\ OffspringRaises(population)
    /\ generation' = generation + 1
    /\ phase' = "raised"
    /\ UNCHANGED <<ga, runs, population, best_individual, stagnation_counter,
                   best_fitness_history, avg_fitness_history, best_cost_history,
                   diversity_history, kept_max, results, call>>

(* lines 174-198: the loop has ended; the returned record holds the engine's
   own history lists, not copies (returned_len is their length at the return) *)
RunReturn ==
    /\ phase = "exit"
    /\ phase' = "returned"
    /\ results' = Append(results,
                         [best_individual |-> best_individual,
                          best_cost |-> best_individual.cost,
                          best_fitness |-> best_individual.fitness,
                          generations |-> generation,
                          returned_len |-> Len(best_cost_history)])
    /\ UNCHANGED <<ga, runs, population, best_individual, generation, stagnation_counter,
                   best_fitness_history, avg_fitness_history, best_cost_history,
                   diversity_history, kept_max, call>>

(* lines 192-197: the 'history' of a returned record holds self.*_history, the
   engine's own lists: read at any later time, it shows what they hold then *)
HistoryOf(result) ==
    [best_fitness |-> best_fitness_history, avg_fitness |-> avg_fitness_history,
     best_cost |-> best_cost_history, diversity |-> diversity_history]

Next ==
    \/ RunStart
    \/ Generation
    \/ GenerationRaises
    \/ RunReturn

Spec == Init /\ [][Next]_vars

NextRerun ==
    \/ RunStart
    \/ RunAgain
    \/ Generation
    \/ GenerationRaises
    \/ RunReturn

SpecRerun == InitRerun /\ [][NextRerun]_vars

----------------------------------------------------------------------------
(* Algorithms/Tournament.py and Algorithms/roulette.py *)

(* Tournament.tournament_selection(population, scores, k): draws[1] is the
   first random.randint(0, len - 1) and the others those of the loop, which
   runs k - 1 times; a later draw wins only with a strictly greater score *)
RECURSIVE tournament_winner(_, _, _)
tournament_winner(scores, selection_ix, draws) ==
    IF draws = <<>> THEN selection_ix
    ELSE tournament_winner(scores,
                           IF scores[Head(draws)] > scores[selection_ix]
                               THEN Head(draws) ELSE selection_ix,
                           Tail(draws))

(* the draws of one call: one, then k - 1 more, each any position *)
tournament_draws(n, k) == [1..Max(k, 1) -> 1..n]

tournament_selection_scores(pop, scores, k) ==
    {pop[tournament_winner(scores, d[1], Tail(d))] : d \in tournament_draws(Len(pop), k)}

(* random.randint(0, len(population) - 1) on an empty range *)
tournament_selection_scores_raises(pop, scores, k) == Len(pop) - 1 < 0

(* random.choices(population, weights, k=k) of Python 3.11: it raises unless
   the weights are as many as the population and their total is > 0 *)
choices_raises(pop, weights) ==
    Len(pop) = 0 \/ Len(weights) # Len(pop) \/ SumSeq(weights) <= 0

(* bisect(cum_weights, random() * total, 0, n - 1): the position after the
   running sums that are <= x, at most the last.  x is a real in [0, total),
   drawn as in Picks2, doubled *)
choices_positions(weights) ==
    LET cum == Cumulative(weights)
        n == Len(weights)
    IN  {Min(Cardinality({i \in 1..n : 2 * cum[i] <= x2}) + 1, n) : x2 \in Picks2(weights)}

choices(pop, weights, k) ==
    IF choices_raises(pop, weights) THEN {}
    ELSE {[i \in 1..Len(c) |-> pop[c[i]]] : c \in [1..Max(k, 0) -> choices_positions(weights)]}

(* roulette.roulette_selection(population, fitness_scores, num_parents) *)
roulette_bulk_raises(pop, fitness_scores, num_parents) ==
    \/ \E i \in 1..Len(fitness_scores) : fitness_scores[i] < 0
    \/ choices_raises(pop, fitness_scores)

roulette_bulk(pop, fitness_scores, num_parents) ==
    IF roulette_bulk_raises(pop, fitness_scores, num_parents) THEN {}
    ELSE choices(pop, fitness_scores, num_parents)

----------------------------------------------------------------------------
(* Direct calls of the operators, on inputs drawn from bounded sets; a
   behaviour makes one call *)

Chromosomes == UNION {[1..n -> 0..MaxVal] : n \in 1..MaxSize}

Instances == {Instance(Len(d), d) : d \in Chromosomes}

(* fitness values a caller can put on an individual *)
FitnessValues == {Frac(-1, 1), Frac(0, 1), Half, Frac(1, 1)}

(* an object with a fitness attribute *)
WithFitness(f, i) ==
    [chromosome |-> <<>>, cost |-> NoCost, fitness |-> f,
     id |-> [run |-> 0, gen |-> 0, idx |-> i]]

Populations ==
    UNION {{[i \in 1..n |-> WithFitness(f[i], i)] : f \in [1..n -> FitnessValues]} :
            n \in 1..MaxPopSize}

(* integer scores / weights *)
ScoreLists == UNION {[1..n -> -1..2] : n \in 1..MaxPopSize}

(* two individuals are built and evaluated, as in lines 133-138 of
   genetic_algorithm.py; fitness has no statement that raises *)
CallFitness ==
    /\ call = NoCall
    /\ \E c1 \in Chromosomes, c2 \in Chromosomes, instance \in Instances :
        LET made == <<Individual(c1, [run |-> 0, gen |-> 0, idx |-> 1]),
                      Individual(c2, [run |-> 0, gen |-> 0, idx |-> 2])>>
        IN  call' = [fn |-> "fitness", instance |-> instance, raised |-> FALSE,
                     before |-> made,
                     after |-> <<fitness(made[1], instance), fitness(made[2], instance)>>]
    /\ UNCHANGED engine_vars

(* Selection.tournament_selection(population, k) *)
CallTournament ==
    /\ call = NoCall
    /\ \E pop \in Populations, k \in 0..MaxK :
        \/ /\ tournament_selection_raises(pop, k)
           /\ call' = [fn |-> "Selection.tournament_selection", pop |-> pop, k |-> k,
                       raised |-> TRUE, drawn |-> <<>>, returned |-> <<>>]
        \/ \E s \in sample(Len(pop), k) :
            /\ ~tournament_selection_raises(pop, k)
            /\ call' = [fn |-> "Selection.tournament_selection", pop |-> pop, k |-> k,
                        raised |-> FALSE, drawn |-> s,
                        returned |-> <<MaxByFitness(Drawn(pop, s))>>]
    /\ UNCHANGED engine_vars

(* Tournament.tournament_selection(population, scores, k), the scores being
   the individuals' fitness values over a common denominator *)
CallTournamentScores ==
    /\ call = NoCall
    /\ \E pop \in Populations, k \in 0..MaxK :
        \E d \in tournament_draws(Len(pop), k) :
            call' = [fn |-> "Tournament.tournament_selection", pop |-> pop, k |-> k,
                     raised |-> tournament_selection_scores_raises(pop, Weights(pop), k),
                     drawn |-> d,
                     returned |-> <<pop[tournament_winner(Weights(pop), d[1], Tail(d))]>>]
    /\ UNCHANGED engine_vars

(* Selection.roulette_selection(population); returned is <<>> for None *)
CallRoulette ==
    /\ call = NoCall
    /\ \E pop \in Populations :
        \/ \E ind \in roulette_selection(pop) :
            call' = [fn |-> "Selection.roulette_selection", pop |-> pop,
                     raised |-> roulette_selection_raises(pop), returned |-> <<ind>>]
        \/ /\ roulette_selection_returns_none(pop)
           /\ call' = [fn |-> "Selection.roulette_selection", pop |-> pop,
                       raised |-> roulette_selection_raises(pop), returned |-> <<>>]
    /\ UNCHANGED engine_vars

(* roulette.roulette_selection(population, fitness_scores, num_parents) *)
CallRouletteBulk ==
    /\ call = NoCall
    /\ \E scores \in ScoreLists, num_parents \in 0..2 :
        LET pop == [i \in 1..Len(scores) |-> WithFitness(Frac(scores[i], 1), i)]
        IN  \/ /\ roulette_bulk_raises(pop, scores, num_parents)
               /\ call' = [fn |-> "roulette.roulette_selection", pop |-> pop,
                           raised |-> TRUE, returned |-> <<>>]
            \/ \E parents \in roulette_bulk(pop, scores, num_parents) :
                call' = [fn |-> "roulette.roulette_selection", pop |-> pop,
                         raised |-> FALSE, returned |-> parents]
    /\ UNCHANGED engine_vars

(* chromosomes for the mutation operators: the empty list and one gene more
   than Chromosomes, so that an inversion can move a gene *)
LongChromosomes == UNION {[1..n -> 0..MaxVal] : n \in 0..(MaxSize + 1)}

(* populations whose individuals carry chromosomes of one length, not evaluated *)
ChromosomePopulations ==
    UNION {{[i \in 1..n |-> Individual(c[i], [run |-> 0, gen |-> 0, idx |-> i])] :
                c \in [1..n -> [1..MaxSize -> 0..1]]} : n \in 0..MaxPopSize}

(* crossover.one_point(parent1, parent2).  The slices and + of lines 8-9 build
   new lists; no statement assigns to parent1 or parent2 *)
CallOnePoint ==
    /\ call = NoCall
    /\ \E parent1 \in Chromosomes, parent2 \in Chromosomes :
        \/ /\ one_point_raises(parent1, parent2)
           /\ call' = [fn |-> "one_point", parent1 |-> parent1, parent2 |-> parent2,
                       raised |-> TRUE, children |-> <<>>,
                       parent1_after |-> parent1, parent2_after |-> parent2]
        \/ \E cc \in one_point(parent1, parent2) :
            call' = [fn |-> "one_point", parent1 |-> parent1, parent2 |-> parent2,
                     raised |-> FALSE, children |-> cc,
                     parent1_after |-> parent1, parent2_after |-> parent2]
    /\ UNCHANGED engine_vars

(* crossover.uniform(parent1, parent2).  The children are lists built by
   append (lines 17-25); no statement assigns to parent1 or parent2 *)
CallUniform ==
    /\ call = NoCall
    /\ \E parent1 \in Chromosomes, parent2 \in Chromosomes :
        \/ /\ uniform_raises(parent1, parent2)
           /\ call' = [fn |-> "uniform", parent1 |-> parent1, parent2 |-> parent2,
                       raised |-> TRUE, children |-> <<>>,
                       parent1_after |-> parent1, parent2_after |-> parent2]
        \/ \E cc \in uniform(parent1, parent2) :
            call' = [fn |-> "uniform", parent1 |-> parent1, parent2 |-> parent2,
                     raised |-> FALSE, children |-> cc,
                     parent1_after |-> parent1, parent2_after |-> parent2]
    /\ UNCHANGED engine_vars

(* mutation.swap(chromosome) and mutation.inversion(chromosome).  Both work on
   child = chromosome.copy() (lines 4 and 10) and assign to child only *)
CallSwap ==
    /\ call = NoCall
    /\ \E chromosome \in LongChromosomes :
        \/ /\ swap_raises(chromosome)
           /\ call' = [fn |-> "swap", chromosome |-> chromosome, raised |-> TRUE,
                       returned |-> <<>>, chromosome_after |-> chromosome]
        \/ \E child \in swap(chromosome) :
            call' = [fn |-> "swap", chromosome |-> chromosome, raised |-> FALSE,
                     returned |-> <<child>>, chromosome_after |-> chromosome]
    /\ UNCHANGED engine_vars

CallInversion ==
    /\ call = NoCall
    /\ \E chromosome \in LongChromosomes :
        \/ /\ inversion_raises(chromosome)
           /\ call' = [fn |-> "inversion", chromosome |-> chromosome, raised |-> TRUE,
                       returned |-> <<>>, chromosome_after |-> chromosome]
        \/ \E child \in inversion(chromosome) :
            call' = [fn |-> "inversion", chromosome |-> chromosome, raised |-> FALSE,
                     returned |-> <<child>>, chromosome_after |-> chromosome]
    /\ UNCHANGED engine_vars

(* mutation.random_reset(chromosome, min_val, max_val); it works on
   child = chromosome.copy() (line 16) *)
CallRandomReset ==
    /\ call = NoCall
    /\ \E chromosome \in LongChromosomes, min_val \in 0..MaxVal, max_val \in 0..MaxVal :
        \/ /\ random_reset_raises(chromosome, min_val, max_val)
           /\ call' = [fn |-> "random_reset", chromosome |-> chromosome,
                       min_val |-> min_val, max_val |-> max_val, raised |-> TRUE,
                       returned |-> <<>>, chromosome_after |-> chromosome]
        \/ \E child \in random_reset(chromosome, min_val, max_val) :
            call' = [fn |-> "random_reset", chromosome |-> chromosome,
                     min_val |-> min_val, max_val |-> max_val, raised |-> FALSE,
                     returned |-> <<child>>, chromosome_after |-> chromosome]
    /\ UNCHANGED engine_vars

(* GeneticAlgorithm.calculate_diversity(population); it has no statement that
   raises on chromosomes of one length >= 1 *)
CallDiversity ==
    /\ call = NoCall
    /\ \E pop \in ChromosomePopulations :
        call' = [fn |-> "calculate_diversity", pop |-> pop, raised |-> FALSE,
                 returned |-> calculate_diversity(pop)]
    /\ UNCHANGED engine_vars

InitOps ==
    /\ ga = Engine(Mixed, 2, Half, Half, 1, "one_point", "swap", "tournament", 3)
    /\ Constructed

NextOps ==
    \/ CallFitness
    \/ CallTournament
    \/ CallTournamentScores
    \/ CallRoulette
    \/ CallRouletteBulk
    \/ CallOnePoint
    \/ CallUniform
    \/ CallSwap
    \/ CallInversion
    \/ CallRandomReset
    \/ CallDiversity

SpecOps == InitOps /\ [][NextOps]_vars

----------------------------------------------------------------------------
(* The claims *)

Alive == phase \in {"running", "exit", "returned"}

(* C1: in every run, the recorded best-cost history never increases:
   best_cost_history[g] <= best_cost_history[g-1] for every index g >= 1. *)
C1_ElitismNonRegression ==
    \A g \in 2..Len(best_cost_history) : best_cost_history[g] <= best_cost_history[g - 1]

(* C2: a run with max_generations = N that stagnation does not stop returns
   generations = N and four histories of length N + 1, generation 0 included. *)
C2_HistoryFromGenerationZero ==
    (phase = "returned" /\ ga.max_generations >= 1 /\ ~Stagnated(stagnation_counter)) =>
        /\ results[Len(results)].generations = ga.max_generations
        /\ Len(best_fitness_history) = ga.max_generations + 1
        /\ Len(avg_fitness_history) = ga.max_generations + 1
        /\ Len(best_cost_history) = ga.max_generations + 1
        /\ Len(diversity_history) = ga.max_generations + 1

(* C3: the run stops after max_generations generations or at the end of the
   first generation whose stagnation counter exceeds 200, whichever is first:
   the generation count never exceeds max_generations; the loop is never
   entered with the counter over 200, so the counter never passes 201; a run
   that returns before max_generations was stopped by stagnation; and a run
   that never improved returns generations = 201 < max_generations when
   max_generations > 201. *)
C3_StoppingRule ==
    ga.max_generations > 0 =>
        /\ generation <= ga.max_generations
        /\ \A r \in 1..Len(results) : results[r].generations <= ga.max_generations
        /\ stagnation_counter <= STAGNATION_LIMIT + 1
        /\ stagnation_counter > STAGNATION_LIMIT => phase \in {"exit", "returned"}
        /\ phase \in {"exit", "returned"} =>
            /\ generation < ga.max_generations => stagnation_counter = STAGNATION_LIMIT + 1
            /\ stagnation_counter <= STAGNATION_LIMIT => generation = ga.max_generations
            /\ (stagnation_counter = generation /\ ga.max_generations > STAGNATION_LIMIT + 1) =>
                    generation = STAGNATION_LIMIT + 1 /\ generation < ga.max_generations
        /\ phase = "returned" => results[Len(results)].generations = generation

(* a run that never improved has returned after 201 of more than 201 generations *)
C3_Witness ==
    /\ phase = "returned"
    /\ ga.max_generations > STAGNATION_LIMIT + 1
    /\ stagnation_counter = STAGNATION_LIMIT + 1
    /\ results[1].generations = STAGNATION_LIMIT + 1

(* C4: at the end of every generation the population has exactly pop_size
   individuals, and the new population the truncation is applied to has
   pop_size or pop_size + 1 individuals, so that at most one is dropped. *)
C4_PopulationSize ==
    (Alive /\ ga.pop_size >= 1) =>
        /\ Len(population) = ga.pop_size
        /\ phase = "running" =>
            \A new_population \in
                    FillPopulation(<<best_individual>>, OffspringPairs(population)) :
                /\ Len(new_population) \in {ga.pop_size, ga.pop_size + 1}
                /\ Len(new_population) - Len(Truncate(new_population)) <= 1

(* a generation has ended whose new population of 3 was cut to pop_size = 2 *)
C4_Witness ==
    /\ Alive
    /\ generation >= 1
    /\ ga.pop_size = 2
    /\ Len(population) = 2
    /\ population[2].id.gen = generation

(* C5: at the end of generation 0 and of every later generation, the carried
   best has the greatest fitness of all individuals kept so far in the run,
   and it is a member of the current population, evaluated and unchanged. *)
C5_BestIndividual ==
    Alive =>
        /\ best_individual.fitness = kept_max
        /\ \A i \in 1..Len(population) :
                ~FracLess(best_individual.fitness, population[i].fitness)
        /\ \E i \in 1..Len(population) : population[i] = best_individual
        /\ best_individual.cost = compute_cost(best_individual, ga.instance)
        /\ best_individual.fitness # NoFitness

(* an offspring of a later generation has become the carried best *)
C5_Witness ==
    /\ Alive
    /\ generation >= 1
    /\ best_individual.id.gen = generation
    /\ \E i \in 2..Len(population) : population[i] = best_individual
    /\ FracLess(population[1].fitness, best_individual.fitness)

(* the parameters the claim calls valid *)
ValidParameters(e) ==
    /\ e.pop_size > 0
    /\ ~FracLess(e.crossover_rate, Frac(0, 1)) /\ ~FracLess(Frac(1, 1), e.crossover_rate)
    /\ ~FracLess(e.mutation_rate, Frac(0, 1)) /\ ~FracLess(Frac(1, 1), e.mutation_rate)
    /\ e.max_generations > 0
    /\ e.tournament_k >= 1

(* C6: an engine with pop_size <= 0, a rate outside [0,1], max_generations <= 0
   or tournament_k < 1 fails at construction: no run starts on it. *)
C6_InvalidParametersRejected ==
    ~ValidParameters(ga) => phase \notin {"running", "exit", "returned"}

(* C7: fitness fails, and writes no cost or fitness, whenever the chromosome
   and the instance data differ in length. *)
C7_LengthMismatchRaises ==
    call.fn = "fitness" =>
        \A i \in 1..2 :
            Len(call.before[i].chromosome) # Len(call.instance.data) =>
                call.raised /\ call.after[i] = call.before[i]

(* the sum over the positions 1..n of |c[i] - d[i]| *)
RECURSIVE AbsDiffSum(_, _, _)
AbsDiffSum(c, d, n) ==
    IF n = 0 THEN 0
    ELSE AbsDiffSum(c, d, n - 1) + (IF c[n] >= d[n] THEN c[n] - d[n] ELSE d[n] - c[n])

SameLength(ind, instance) == Len(ind.chromosome) = Len(instance.data)

(* C8: for a chromosome and an instance of equal length, cost is the sum of
   |chromosome[i] - data[i]|, so cost >= 0 and cost = 0 exactly when the
   chromosome is the data; fitness is 1/(1+cost); and of two evaluated
   individuals one has the greater fitness exactly when it has the smaller cost. *)
C8_CostAndFitness ==
    call.fn = "fitness" =>
        /\ \A i \in 1..2 :
            SameLength(call.before[i], call.instance) =>
                LET ind == call.after[i]
                IN  /\ ~call.raised
                    /\ ind.chromosome = call.before[i].chromosome
                    /\ ind.cost = AbsDiffSum(ind.chromosome, call.instance.data,
                                             Len(call.instance.data))
                    /\ ind.cost >= 0
                    /\ ind.cost = 0 <=> ind.chromosome = call.instance.data
                    /\ ind.fitness.den > 0
                    /\ ind.fitness.num * (1 + ind.cost) = ind.fitness.den
        /\ (SameLength(call.before[1], call.instance)
                /\ SameLength(call.before[2], call.instance)) =>
            (FracLess(call.after[2].fitness, call.after[1].fitness)
                <=> call.after[1].cost < call.after[2].cost)

(* two individuals of the instance's length were evaluated, one at cost 0 and
   one at a greater cost *)
C8_Witness ==
    /\ call.fn = "fitness"
    /\ SameLength(call.before[1], call.instance)
    /\ SameLength(call.before[2], call.instance)
    /\ call.after[1].cost = 0
    /\ call.after[2].cost > 0
    /\ FracLess(call.after[2].fitness, call.after[1].fitness)

(* C9: for every k >= 1 and every non-empty evaluated population, tournament
   selection (either implementation) does not fail, draws k individuals and
   returns a member of the population whose fitness is the greatest drawn. *)
C9_TournamentSelection ==
    (call.fn \in {"Selection.tournament_selection", "Tournament.tournament_selection"}
        /\ call.k >= 1
        /\ \A i \in 1..Len(call.pop) : call.pop[i].fitness.num > 0) =>
        /\ ~call.raised
        /\ Len(call.drawn) = call.k
        /\ Len(call.returned) = 1
        /\ \E i \in 1..Len(call.drawn) : call.returned[1] = call.pop[call.drawn[i]]
        /\ \A i \in 1..Len(call.drawn) :
                ~FracLess(call.returned[1].fitness, call.pop[call.drawn[i]].fitness)

(* C10: roulette selection (the single-parent form and the bulk form) fails
   when some fitness in the population is negative, and does not fail and
   returns members of the population when all are >= 0 and one is > 0. *)
C10_RouletteErrors ==
    call.fn \in {"Selection.roulette_selection", "roulette.roulette_selection"} =>
        /\ (\E i \in 1..Len(call.pop) : call.pop[i].fitness.num < 0) => call.raised
        /\ ((\A i \in 1..Len(call.pop) : call.pop[i].fitness.num >= 0)
                /\ (\E i \in 1..Len(call.pop) : call.pop[i].fitness.num > 0)) =>
            /\ ~call.raised
            /\ \A j \in 1..Len(call.returned) :
                    \E i \in 1..Len(call.pop) : call.returned[j] = call.pop[i]
            /\ call.fn = "Selection.roulette_selection" => Len(call.returned) = 1

(* C11: for equal-length parents of any length >= 1, one_point does not fail
   and returns two children of the parents' length, with child1 =
   parent1[0:cut] ++ parent2[cut:] and child2 = parent2[0:cut] ++ parent1[cut:]
   for some cut in [1, length-1], and leaves both parents unmodified. *)
C11_OnePoint ==
    (call.fn = "one_point" /\ Len(call.parent1) = Len(call.parent2)
        /\ Len(call.parent1) >= 1) =>
        /\ ~call.raised
        /\ Len(call.children) = 2
        /\ Len(call.children[1]) = Len(call.parent1)
        /\ Len(call.children[2]) = Len(call.parent1)
        /\ \E cut \in 1..(Len(call.parent1) - 1) :
            /\ \A i \in 1..Len(call.parent1) :
                call.children[1][i] = IF i <= cut THEN call.parent1[i] ELSE call.parent2[i]
            /\ \A i \in 1..Len(call.parent1) :
                call.children[2][i] = IF i <= cut THEN call.parent2[i] ELSE call.parent1[i]
        /\ call.parent1_after = call.parent1
        /\ call.parent2_after = call.parent2

(* C12: for equal-length parents, uniform does not fail and at every position
   i the pair (child1[i], child2[i]) is (parent1[i], parent2[i]) or
   (parent2[i], parent1[i]); both children have the parents' length, and
   identical parents give children identical to them. *)
C12_Uniform ==
    (call.fn = "uniform" /\ Len(call.parent1) = Len(call.parent2)) =>
        /\ ~call.raised
        /\ Len(call.children) = 2
        /\ Len(call.children[1]) = Len(call.parent1)
        /\ Len(call.children[2]) = Len(call.parent1)
        /\ \A i \in 1..Len(call.parent1) :
            \/ call.children[1][i] = call.parent1[i] /\ call.children[2][i] = call.parent2[i]
            \/ call.children[1][i] = call.parent2[i] /\ call.children[2][i] = call.parent1[i]
        /\ call.parent1 = call.parent2 =>
            call.children[1] = call.parent1 /\ call.children[2] = call.parent1

(* uniform has made a child that is neither parent *)
C12_Witness ==
    /\ call.fn = "uniform"
    /\ ~call.raised
    /\ call.children[1] # call.parent1
    /\ call.children[1] # call.parent2
    /\ call.children[2] # call.children[1]

(* how often the value v occurs in the sequence c *)
Occurrences(c, v) == Cardinality({i \in 1..Len(c) : c[i] = v})

(* a and b hold the same values, each as often *)
SameMultiset(a, b) ==
    /\ Len(a) = Len(b)
    /\ \A i \in 1..Len(a) : Occurrences(a, a[i]) = Occurrences(b, a[i])

(* C13: for a chromosome of length >= 2, swap and inversion do not fail and
   return a chromosome with the same multiset of gene values as the input,
   and leave the input unmodified. *)
C13_SwapInversionPermute ==
    (call.fn \in {"swap", "inversion"} /\ Len(call.chromosome) >= 2) =>
        /\ ~call.raised
        /\ Len(call.returned) = 1
        /\ SameMultiset(call.returned[1], call.chromosome)
        /\ call.chromosome_after = call.chromosome

(* an inversion has moved genes: the returned chromosome is another order *)
C13_Witness ==
    /\ call.fn = "inversion"
    /\ ~call.raised
    /\ call.returned[1] # call.chromosome
    /\ SameMultiset(call.returned[1], call.chromosome)

(* the positions at which a and b, of one length, differ *)
Differing(a, b) == {i \in 1..Len(a) : a[i] # b[i]}

(* C14, as stated: for a non-empty chromosome and min_val <= max_val,
   random_reset returns a chromosome that differs from the input at exactly
   one position, whose new value lies in [min_val, max_val], and leaves the
   input unmodified. *)
C14_RandomResetExactlyOne ==
    (call.fn = "random_reset" /\ Len(call.chromosome) >= 1
        /\ call.min_val <= call.max_val) =>
        /\ ~call.raised
        /\ Len(call.returned) = 1
        /\ Len(call.returned[1]) = Len(call.chromosome)
        /\ Cardinality(Differing(call.returned[1], call.chromosome)) = 1
        /\ \A i \in Differing(call.returned[1], call.chromosome) :
                call.returned[1][i] \in call.min_val..call.max_val
        /\ call.chromosome_after = call.chromosome

(* C14, amended: for a non-empty chromosome and min_val <= max_val,
   random_reset returns a chromosome of the input's length that equals the
   input everywhere but at one position, whose value lies in
   [min_val, max_val] and may be the value it had: the result differs from
   the input at no more than one position.  The input is left unmodified. *)
C14_RandomResetAtMostOne ==
    (call.fn = "random_reset" /\ Len(call.chromosome) >= 1
        /\ call.min_val <= call.max_val) =>
        /\ ~call.raised
        /\ Len(call.returned) = 1
        /\ Len(call.returned[1]) = Len(call.chromosome)
        /\ Cardinality(Differing(call.returned[1], call.chromosome)) <= 1
        /\ \E i \in 1..Len(call.chromosome) :
            /\ call.returned[1][i] \in call.min_val..call.max_val
            /\ \A j \in 1..Len(call.chromosome) :
                    j # i => call.returned[1][j] = call.chromosome[j]
        /\ call.chromosome_after = call.chromosome

(* random_reset has changed one gene of several, to a value of a range of
   more than one value *)
C14_Witness ==
    /\ call.fn = "random_reset"
    /\ ~call.raised
    /\ call.min_val < call.max_val
    /\ Len(call.chromosome) >= 2
    /\ Cardinality(Differing(call.returned[1], call.chromosome)) = 1

(* the pairs the claim compares, 1-based: i among the first min(20, n), j
   among the next min(10, n - 1) after i that exist *)
ClaimedPairs(n) ==
    {<<i, j>> \in (1..Min(20, n)) \X (1..n) : j > i /\ j <= i + Min(10, n - 1)}

RECURSIVE HammingSum(_, _)
HammingSum(pop, pairs) ==
    IF pairs = {} THEN 0
    ELSE LET e == CHOOSE x \in pairs : TRUE
         IN  Cardinality(Differing(pop[e[1]].chromosome, pop[e[2]].chromosome))
                + HammingSum(pop, pairs \ {e})

(* C15: for a population of n >= 2, calculate_diversity returns the mean
   normalized Hamming distance over the pairs (i, j), i among the first
   min(20, n) and j among the next min(10, n-1) after i that exist; two
   individuals with different chromosomes have diversity > 0, and a
   population sharing one chromosome has diversity 0. *)
C15_DiversitySampling ==
    (call.fn = "calculate_diversity" /\ Len(call.pop) >= 2) =>
        LET n == Len(call.pop)
            size == Len(call.pop[1].chromosome)
        IN  /\ call.returned =
                    Frac(HammingSum(call.pop, ClaimedPairs(n)),
                         size * Cardinality(ClaimedPairs(n)))
            /\ (n = 2 /\ call.pop[1].chromosome # call.pop[2].chromosome) =>
                    call.returned.num > 0
            /\ (\A i \in 1..n : call.pop[i].chromosome = call.pop[1].chromosome) =>
                    call.returned = Frac(0, 1)

(* C16: after each generation, if the generation's best individual has
   strictly greater fitness than the carried best, it becomes the carried best
   and the stagnation counter is 0; otherwise (a tie included) the carried
   best stays the very same individual and the counter grows by exactly 1.
   The counter therefore equals the number of generations since the carried
   best was made: the most recent generations without strict improvement. *)
C16_StagnationCounter ==
    /\ [][(phase = "running" /\ generation' = generation + 1 /\ phase' # "raised") =>
            LET generation_best == MaxByFitness(population')
            IN  IF FracLess(best_individual.fitness, generation_best.fitness)
                THEN best_individual' = generation_best /\ stagnation_counter' = 0
                ELSE /\ best_individual' = best_individual
                     /\ stagnation_counter' = stagnation_counter + 1]_vars
    /\ [](Alive => /\ best_individual.id.run = runs
                   /\ stagnation_counter = generation - best_individual.id.gen)

(* the best was replaced in generation 1, and generation 2 made an individual
   that ties with it: the carried best stayed and the counter is 1 *)
C16_Witness ==
    /\ Alive
    /\ generation = 2
    /\ best_individual.id.gen = 1
    /\ stagnation_counter = 1
    /\ \E i \in 2..Len(population) :
        /\ population[i].id.gen = 2
        /\ population[i].fitness = best_individual.fitness

(* C17: over any sequence of calls of run() on one engine, the histories of a
   result already returned are not changed by a later run (they keep the
   length they were returned with), and the four histories of each result
   describe its own run only: their length is that run's generation count. *)
C17_ResultIsSnapshot ==
    \A r \in 1..Len(results) :
        LET history == HistoryOf(results[r])
        IN  /\ Len(history.best_cost) = results[r].returned_len
            /\ Len(history.best_fitness) = results[r].generations
            /\ Len(history.avg_fitness) = results[r].generations
            /\ Len(history.best_cost) = results[r].generations
            /\ Len(history.diversity) = results[r].generations

(* C18: in every generation of a run, every individual of the population has
   a chromosome of length instance.size with every gene in
   [0, max(instance.data)], and has its cost and fitness set, whatever the
   crossover and the mutation operator; so has the carried best. *)
C18_GeneRangeAndShape ==
    /\ \A i \in 1..Len(population) :
        /\ Len(population[i].chromosome) = ga.instance.size
        /\ \A g \in 1..Len(population[i].chromosome) :
                population[i].chromosome[g] \in 0..MaxOf(ga.instance.data)
        /\ population[i].cost # NoCost
        /\ population[i].cost >= 0
        /\ population[i].fitness # NoFitness
        /\ population[i].fitness = Frac(1, 1 + population[i].cost)
    /\ Alive => /\ best_individual.fitness # NoFitness
                /\ best_individual.cost # NoCost
                /\ Len(best_individual.chromosome) = ga.instance.size

(* a generation with uniform crossover and random_reset has put an offspring
   in the population, with a gene at the top of the range *)
C18_Witness ==
    /\ Alive
    /\ generation >= 1
    /\ ga.crossover_op = "uniform"
    /\ ga.mutation_op = "random_reset"
    /\ ga.instance.size = 2
    /\ \E i \in 2..Len(population) :
        /\ population[i].id.gen = generation
        /\ population[i].chromosome[2] = MaxOf(ga.instance.data)
        /\ population[i].chromosome[1] # population[i].chromosome[2]

====
